---- MODULE Spec2Model ----
(***************************************************************************)
(* A model of scripts/manage_secrets.py and scripts/update_config.py: the  *)
(* two command-line utilities that assemble the YAML "secrets" document.   *)
(*                                                                         *)
(* The file system holds, for each path, the file's content; a YAML file   *)
(* is represented by the value yaml.safe_load gives for it, together with  *)
(* a flag telling whether its text is the text yaml.dump would write for   *)
(* that value.  The entries of a document are objects: an anchor of the    *)
(* YAML text and its aliases are one object, and what the scripts change   *)
(* in place shows through every alias.  One invocation of a script is a    *)
(* process: it starts with an argument vector, runs to its exit, and       *)
(* leaves an exit status, the lines it printed and the exception it died   *)
(* of, if any.                                                             *)
(***************************************************************************)
EXTENDS Integers, Sequences, FiniteSets

VARIABLES
    env,          \* os.environ: variable name -> value, or Unset
    fs,           \* the file system: path -> file content
    argv,         \* sys.argv of the running (or last) invocation
    pc,           \* position of the running invocation, "idle" when none runs
    doc,          \* merge_main: the document in memory
    new_secrets,  \* merge_main: the records get_env_secrets() returned
    idx,          \* merge_main: the index in new_secrets of the next upsert
    stdout,       \* the lines the running (or last) invocation printed
    raised,       \* the exception the last invocation died of, or NoError
    status,       \* exit status of the last invocation, NotExited before
    runs,         \* number of invocations started
    pre           \* the file system as the running (or last) invocation found it

vars == <<env, fs, argv, pc, doc, new_secrets, idx, stdout, raised, status,
          runs, pre>>

----------------------------------------------------------------------------
(* Values *)

\* Python's None, as a data value and as the result of os.environ.get.
Null == "<None>"

\* A variable that is not in os.environ.
Unset == "<unset>"

\* The 'key' of a secrets entry that is a mapping without a 'key' field:
\* s['key'] raises KeyError on it.
NoKey == "<no key>"

\* The 'key' of a secrets entry that is no mapping (a string, None, a
\* number, a list): s['key'] raises TypeError on it.
NotMapping == "<no mapping>"

\* A record with no field besides 'key' and 'data'.
NoExtra == "<none>"

NoError == "<no error>"

NotExited == 0 - 1

EnvVars == {"DATABASE_SCHEMA", "DATABASE_URL",
            "AUDIT_DATABASE_SCHEMA", "AUDIT_DATABASE_URL",
            "SEARCH_DATABASE_SCHEMA", "SEARCH_DATABASE_URL",
            "REDIS_URL", "ANALYTIC_REDIS_URL"}

\* os.environ.get(name): None when the variable is absent.
EnvGet(e, name) == IF e[name] = Unset THEN Null ELSE e[name]

\* os.environ.get(name, default) with the default left out.
EnvGetWithoutDefault(e, name, default) == EnvGet(e, name)

\* os.environ.get(name, default).
EnvGetDefault(e, name, default) == IF e[name] = Unset THEN default ELSE e[name]

\* The data of an entry before any script ran: plain values; a value nested
\* so deep that yaml.safe_load reads it and yaml.dump raises RecursionError;
\* a value of the tag !!omap, which yaml.safe_load reads as a list of tuples.
OldData == [database_url |-> "postgres://old", database_schema |-> "legacy"]

DeepData == [nested |-> "[[[[...]]]]"]

OmapData == [pairs |-> "!!omap [a: 1]"]

\* What yaml.dump writes of the list of tuples: a sequence of the tag
\* !!python/tuple, which yaml.safe_load does not construct.
TupleData == [pairs |-> "[!!python/tuple [a, 1]]"]

\* A secrets entry {'key': k, 'data': d}; extra stands for its other fields.
Secret(k, d) == [key |-> k, data |-> d, extra |-> NoExtra]

get_env_secrets(e) ==
    << Secret("db",
              [database_schema |-> EnvGetDefault(e, "DATABASE_SCHEMA", "public"),
               database_url    |-> EnvGet(e, "DATABASE_URL")]),
       Secret("audit.db",
              [database_schema |-> EnvGetDefault(e, "AUDIT_DATABASE_SCHEMA", "public"),
               database_url    |-> EnvGet(e, "AUDIT_DATABASE_URL")]),
       Secret("images.db",
              [database_schema |-> EnvGetDefault(e, "DATABASE_SCHEMA", "public"),
               database_url    |-> EnvGet(e, "DATABASE_URL")]),
       Secret("search.db",
              [database_schema |-> EnvGetDefault(e, "SEARCH_DATABASE_SCHEMA", "public"),
               database_url    |-> EnvGet(e, "SEARCH_DATABASE_URL")]),
       Secret("redis",
              [redis_url |-> EnvGet(e, "REDIS_URL")]),
       Secret("analytic.redis",
              [redis_url |-> EnvGet(e, "ANALYTIC_REDIS_URL")]) >>

----------------------------------------------------------------------------
(* Documents *)

\* The top-level fields of a mapping other than 'secrets'.  kind is
\*   "none"  : there is none
\*   "plain" : a field of plain values (id: app)
\*   "deep"  : a field nested too deep for yaml.dump
\*   "omap"  : a field of the tag !!omap
\*   "tuple" : a field of the tag !!python/tuple, as yaml.dump writes the
\*             one before
\*   "entry" : a field that is the entry object refs[1] (keep: *e)
\*   "same"  : a field that is the list object doc['secrets'] itself
\*   "list"  : a field that is another list, of the entry objects refs
Top(kind, refs) == [kind |-> kind, refs |-> refs]

NoTop == Top("none", <<>>)

\* A Python value as yaml.safe_load returns it.  kind is
\*   "falsy"  : None, or another value that is not a mapping and is false
\*              (an empty file, [], 0, '')
\*   "nonmap" : a value that is not a mapping and is true (a list, a string)
\*   "map"    : a mapping; top stands for its fields other than 'secrets',
\*              and secKind says what doc['secrets'] is:
\*                "missing"   : the mapping has no 'secrets'
\*                "list"      : a list
\*                "emptyiter" : '' or {}, iterable and empty but no list
\*                "notlist"   : anything else (None, a number, a non-empty
\*                              string or mapping)
\* objs are the entry objects of the value, each named by its index, and
\* secrets is the list doc['secrets'], of the names of its entries: a name
\* that occurs twice is one object at two places.
Value(kind, top, secKind, objs, secrets) ==
    [kind |-> kind, top |-> top, secKind |-> secKind, objs |-> objs,
     secrets |-> secrets]

\* The Python value {}.
EmptyMap == Value("map", NoTop, "missing", <<>>, <<>>)

\* bool(v) of a loaded value: {} is false like None.
Truthy(v) == v.kind = "nonmap" \/ (v.kind = "map" /\ v # EmptyMap)

\* The entries of doc['secrets'], in order.
EntriesOf(v) == [i \in 1..Len(v.secrets) |-> v.objs[v.secrets[i]]]

\* The names of the objects the value holds, in the order a traversal meets
\* them, each as often as it is met.
Refs(v) == v.secrets \o v.top.refs

\* The items of a list, each once, in the order of their first occurrence.
RECURSIVE DistinctFrom(_, _, _)
DistinctFrom(list, i, seen) ==
    IF i > Len(list) THEN seen
    ELSE IF \E k \in 1..Len(seen) : seen[k] = list[i]
         THEN DistinctFrom(list, i + 1, seen)
         ELSE DistinctFrom(list, i + 1, Append(seen, list[i]))

Distinct(list) == DistinctFrom(list, 1, <<>>)

\* The value with its objects named in the order a traversal meets them and
\* the objects nothing refers to dropped: what is left of the names when the
\* value is written and read again.
Renamed(v) ==
    LET order == Distinct(Refs(v))
        name(old) == CHOOSE k \in 1..Len(order) : order[k] = old
    IN  Value(v.kind,
              Top(v.top.kind, [i \in 1..Len(v.top.refs) |-> name(v.top.refs[i])]),
              v.secKind,
              [k \in 1..Len(order) |-> v.objs[order[k]]],
              [i \in 1..Len(v.secrets) |-> name(v.secrets[i])])

\* yaml.dump raises RecursionError on the value.
DumpRaises(v) ==
    \/ v.top.kind = "deep"
    \/ \E i \in 1..Len(Refs(v)) : v.objs[Refs(v)[i]].data = DeepData

\* What yaml.dump writes of an entry: the text of its value, but a tuple
\* with the tag !!python/tuple.
Represent(s) == IF s.data = OmapData THEN [s EXCEPT !.data = TupleData] ELSE s

----------------------------------------------------------------------------
(* Files *)

\* A file's content: kind "absent" (no such file), "malformed" (no YAML), or
\* the kind of the value its text stands for; canon tells that the text is
\* what yaml.dump(value, default_flow_style=False) writes.
File(kind, canon, top, secKind, objs, secrets) ==
    [kind |-> kind, canon |-> canon, top |-> top, secKind |-> secKind,
     objs |-> objs, secrets |-> secrets]

AbsentFile == File("absent", FALSE, NoTop, "missing", <<>>, <<>>)

MalformedFile == File("malformed", FALSE, NoTop, "missing", <<>>, <<>>)

\* A file of no bytes: what open(path, 'w') leaves when nothing is written.
EmptyFile == File("falsy", FALSE, NoTop, "missing", <<>>, <<>>)

\* os.path.exists(path)
Exists(f) == f.kind # "absent"

\* yaml.safe_load(f) of a file it parses.
safe_load(f) == Value(f.kind, f.top, f.secKind, f.objs, f.secrets)

\* yaml.safe_load raises yaml.YAMLError on this file: it is no YAML, or it
\* has the tag !!python/tuple.
LoadRaises(f) ==
    \/ f.kind = "malformed"
    \/ f.top.kind = "tuple"
    \/ \E i \in 1..Len(Refs(f)) : f.objs[Refs(f)[i]].data = TupleData

\* yaml.safe_load(f) or {}
LoadOrEmpty(f) == IF Truthy(safe_load(f)) THEN safe_load(f) ELSE EmptyMap

\* What yaml.dump(doc, f, default_flow_style=False) writes of a value it
\* does not raise on.
Dump(v) ==
    LET w == Renamed(v)
    IN  File(v.kind, TRUE,
             IF w.top.kind = "omap" THEN Top("tuple", <<>>) ELSE w.top,
             v.secKind,
             [k \in 1..Len(w.objs) |-> Represent(w.objs[k])], w.secrets)

\* "with open(path, 'w') as f: yaml.dump(doc, f, ...)": the file is emptied
\* when it is opened, and stays empty when yaml.dump raises.
Written(v) == IF DumpRaises(v) THEN EmptyFile ELSE Dump(v)

\* The keys of a list of entries, in order.
Keys(entries) == [i \in 1..Len(entries) |-> entries[i].key]

\* The exception s['key'] raises on an entry, NoError when it has a key.
KeyRaises(s) ==
    IF s.key = NoKey THEN "KeyError"
    ELSE IF s.key = NotMapping THEN "TypeError"
    ELSE NoError

\* The scan "for i, s in enumerate(secrets): if s['key'] == key: ... break".
\* Gives the index of the first entry with that key and 0 when the scan ends
\* without one; err is the exception of the first s['key'] that raises
\* before that.
RECURSIVE ScanFrom(_, _, _)
ScanFrom(entries, key, i) ==
    IF i > Len(entries) THEN [err |-> NoError, at |-> 0]
    ELSE IF KeyRaises(entries[i]) # NoError
         THEN [err |-> KeyRaises(entries[i]), at |-> 0]
    ELSE IF entries[i].key = key THEN [err |-> NoError, at |-> i]
    ELSE ScanFrom(entries, key, i + 1)

Scan(entries, key) == ScanFrom(entries, key, 1)

\* The exception of "for s in secrets: ... s['key'] ..." over the whole
\* list: that of the first entry that raises.
RECURSIVE IterRaisesFrom(_, _)
IterRaisesFrom(entries, i) ==
    IF i > Len(entries) THEN NoError
    ELSE IF KeyRaises(entries[i]) # NoError THEN KeyRaises(entries[i])
    ELSE IterRaisesFrom(entries, i + 1)

IterRaises(entries) == IterRaisesFrom(entries, 1)

\* The result of a step that may raise: err is the exception (NoError when
\* none) and doc the value after the step.
Ok(v) == [err |-> NoError, doc |-> v]

Raise(exc) == [err |-> exc, doc |-> EmptyMap]

\* list.append(s) of a new object s to doc['secrets'].
AppendNew(v, s) ==
    [v EXCEPT !.objs = Append(@, s), !.secrets = Append(@, Len(v.objs) + 1)]

\* The names in doc['secrets'] of the entries whose key is in an allow-list.
NamesWithKey(v, allowed) ==
    SelectSeq(v.secrets, LAMBDA n : v.objs[n].key \in allowed)

----------------------------------------------------------------------------
(* manage_secrets.py: merge_main and create_images_config *)

\* A round that drops the entry it finds and appends ns, in place of
\* assigning to doc['secrets'][i].
merge_upsert_moving(v, ns) ==
    IF v.secKind = "notlist" THEN Raise("TypeError")
    ELSE IF v.secKind = "emptyiter" THEN Raise("AttributeError")
    ELSE LET r == Scan(EntriesOf(v), ns.key) IN
         IF r.err # NoError THEN Raise(r.err)
         ELSE IF r.at > 0
         THEN Ok(AppendNew([v EXCEPT !.secrets =
                                SubSeq(@, 1, r.at - 1) \o SubSeq(@, r.at + 1, Len(@))],
                           ns))
         ELSE Ok(AppendNew(v, ns))

\* One round of merge_main's loop "for ns in new_secrets" on doc['secrets']:
\* the place of the first entry with ns's key is given to the new object ns
\* (the entry that was there is not changed), or ns is appended.
merge_upsert(v, ns) ==
    IF v.secKind = "notlist" THEN Raise("TypeError")
    ELSE IF v.secKind = "emptyiter" THEN Raise("AttributeError")
    ELSE LET r == Scan(EntriesOf(v), ns.key) IN
         IF r.err # NoError THEN Raise(r.err)
         ELSE IF r.at > 0
         THEN Ok([v EXCEPT !.objs = Append(@, ns),
                           !.secrets[r.at] = Len(v.objs) + 1])
         ELSE Ok(AppendNew(v, ns))

REQUIRED_FROM_MAIN == {"admin-api.auth", "oauth", "csrf"}

REQUIRED_FROM_ENV == {"db", "redis", "images.db"}

\* The entries of a list whose key is in an allow-list, in the list's order.
FilterKeys(entries, allowed) ==
    SelectSeq(entries, LAMBDA s : s.key \in allowed)

\* Step 1 without the test "s['key'] in REQUIRED_FROM_MAIN".
images_from_main_unfiltered(f) ==
    IF ~Exists(f) THEN Ok(Value("map", NoTop, "list", <<>>, <<>>))
    ELSE IF LoadRaises(f) THEN Raise("YAMLError")
    ELSE LET v == LoadOrEmpty(f) IN
         IF v.kind # "map" THEN Raise("AttributeError")
         ELSE IF v.secKind = "notlist" THEN Raise("TypeError")
         ELSE IF v.secKind # "list" THEN Ok(Value("map", NoTop, "list", <<>>, <<>>))
         ELSE IF IterRaises(EntriesOf(v)) # NoError THEN Raise(IterRaises(EntriesOf(v)))
         ELSE Ok(Value("map", NoTop, "list", v.objs, v.secrets))

\* Step 1 of create_images_config: {'secrets': filtered_secrets} with the
\* entries taken from the main file, the objects of the loaded document.
images_from_main(f) ==
    IF ~Exists(f) THEN Ok(Value("map", NoTop, "list", <<>>, <<>>))
    ELSE IF LoadRaises(f) THEN Raise("YAMLError")
    ELSE LET v == LoadOrEmpty(f) IN
         IF v.kind # "map" THEN Raise("AttributeError")
         ELSE IF v.secKind = "notlist" THEN Raise("TypeError")
         ELSE IF v.secKind # "list" THEN Ok(Value("map", NoTop, "list", <<>>, <<>>))
         ELSE IF IterRaises(EntriesOf(v)) # NoError THEN Raise(IterRaises(EntriesOf(v)))
         ELSE Ok(Value("map", NoTop, "list", v.objs,
                       NamesWithKey(v, REQUIRED_FROM_MAIN)))

\* Step 2 of create_images_config: the entries built from the environment.
images_from_env(e) == FilterKeys(get_env_secrets(e), REQUIRED_FROM_ENV)

\* The entries of a list appended, each a new object, from the n-th on.
RECURSIVE AppendAll(_, _, _)
AppendAll(v, entries, n) ==
    IF n > Len(entries) THEN v
    ELSE AppendAll(AppendNew(v, entries[n]), entries, n + 1)

\* output_doc of create_images_config when step 1 did not raise.
images_secrets(fromMain, fromEnv) == AppendAll(fromMain, fromEnv, 1)

----------------------------------------------------------------------------
(* update_config.py: update_secrets *)

\* update_or_append without the break and the test of found: the record is
\* appended also after a match.
update_or_append_appending(v, key, data) ==
    LET r == Scan(EntriesOf(v), key) IN
    IF r.err # NoError THEN Raise(r.err)
    ELSE IF r.at > 0
    THEN Ok(AppendNew([v EXCEPT !.objs[v.secrets[r.at]].data = data],
                      Secret(key, data)))
    ELSE Ok(AppendNew(v, Secret(key, data)))

\* update_or_append(key, data) on the list secrets: s['data'] = data changes
\* the object s, at every place where it is.
update_or_append(v, key, data) ==
    LET r == Scan(EntriesOf(v), key) IN
    IF r.err # NoError THEN Raise(r.err)
    ELSE IF r.at > 0 THEN Ok([v EXCEPT !.objs[v.secrets[r.at]].data = data])
    ELSE Ok(AppendNew(v, Secret(key, data)))

\* The six calls of update_or_append, in the order of the code.
UpdateCalls(db_url, audit_db_url, search_db_url, redis_url, analytic_redis_url) ==
    << Secret("db", [database_url |-> db_url, database_schema |-> "public"]),
       Secret("audit.db", [database_url |-> audit_db_url, database_schema |-> "audit"]),
       Secret("images.db", [database_url |-> db_url, database_schema |-> "public"]),
       Secret("search.db", [database_url |-> search_db_url, database_schema |-> "search"]),
       Secret("redis", [redis_url |-> redis_url]),
       Secret("analytic.redis", [redis_url |-> analytic_redis_url]) >>

\* The calls from the n-th on, each on the result of the one before; the
\* first exception ends them.
RECURSIVE UpdateAll(_, _, _)
UpdateAll(v, calls, n) ==
    IF n > Len(calls) THEN Ok(v)
    ELSE LET r == update_or_append(v, calls[n].key, calls[n].data) IN
         IF r.err # NoError THEN r ELSE UpdateAll(r.doc, calls, n + 1)

\* filter_keys: None (given is FALSE), or a list of keys.
FilterNone == [given |-> FALSE, keys |-> <<>>]

FilterList(keys) == [given |-> TRUE, keys |-> keys]

\* The set of the items of a list.
Items(list) == {list[i] : i \in 1..Len(list)}

\* The filter with "not in" for "in": a deny-list.
apply_filter_excluding(v, filter_keys) ==
    IF ~filter_keys.given \/ Len(filter_keys.keys) = 0 THEN Ok(v)
    ELSE IF IterRaises(EntriesOf(v)) # NoError THEN Raise(IterRaises(EntriesOf(v)))
    ELSE Ok([v EXCEPT !.secrets =
                          SelectSeq(v.secrets,
                                    LAMBDA n : v.objs[n].key \notin Items(filter_keys.keys)),
                      !.top = IF v.top.kind = "same" THEN Top("list", v.secrets) ELSE @])

\* "if filter_keys: secrets = [s for s in secrets if s['key'] in filter_keys]"
\* and "doc['secrets'] = secrets".  None and the empty list are false.  The
\* filter makes a new list: a field that was the old list object keeps the
\* old list.
apply_filter(v, filter_keys) ==
    IF ~filter_keys.given \/ Len(filter_keys.keys) = 0 THEN Ok(v)
    ELSE IF IterRaises(EntriesOf(v)) # NoError THEN Raise(IterRaises(EntriesOf(v)))
    ELSE Ok([v EXCEPT !.secrets = NamesWithKey(v, Items(filter_keys.keys)),
                      !.top = IF v.top.kind = "same" THEN Top("list", v.secrets) ELSE @])

\* update_secrets up to "doc['secrets'] = secrets": the exception it raises,
\* or the document it goes on to write.
update_secrets(f, calls, filter_keys) ==
    IF ~Exists(f) THEN Raise("FileNotFoundError")
    ELSE IF LoadRaises(f) THEN Raise("YAMLError")
    ELSE LET v == safe_load(f) IN
         IF v.kind # "map" THEN Raise("AttributeError")
         ELSE IF v.secKind = "notlist" THEN Raise("TypeError")
         ELSE IF v.secKind = "emptyiter" THEN Raise("AttributeError")
         ELSE LET merged == UpdateAll([v EXCEPT !.secKind = "list"], calls, 1)
              IN  IF merged.err # NoError THEN merged
                  ELSE apply_filter(merged.doc, filter_keys)

\* sys.argv[8].split(','): the argument is given as its pieces, the commas
\* among them; a piece is a key or, between two commas or at an end, ''.
RECURSIVE SplitFrom(_, _, _)
SplitFrom(arg, i, piece) ==
    IF i > Len(arg) THEN <<piece>>
    ELSE IF arg[i] = "," THEN <<piece>> \o SplitFrom(arg, i + 1, "")
    ELSE SplitFrom(arg, i + 1, arg[i])

split(arg) == SplitFrom(arg, 1, "")
----------------------------------------------------------------------------
(* Bounds *)

\* Invocations in a run of the model.
MaxRuns == 2

\* Entries in the 'secrets' of a file at the start.
MaxSecretsLen == 2

\* Entries in the 'secrets' of the main file at the start, where the
\* images configuration is derived from it.
MaxMainLen == 4

----------------------------------------------------------------------------
(* Invocations *)

MANAGE_SECRETS == "manage_secrets.py"

UPDATE_CONFIG == "update_config.py"

Paths == {"main", "out"}

\* sys.argv[n] of Python is Arg(a, n); it raises IndexError iff ~HasArg(a, n).
HasArg(a, n) == n + 1 <= Len(a)

Arg(a, n) == a[n + 1]

\* The process ends: exit status, the exception it died of, what it printed.
Exit(code, exc, out) ==
    /\ pc' = "idle"
    /\ status' = code
    /\ raised' = exc
    /\ stdout' = out
    /\ doc' = EmptyMap
    /\ new_secrets' = <<>>
    /\ idx' = 0

\* An uncaught exception: the interpreter writes the traceback to the
\* standard error stream and exits with status 1; nothing is printed.
Die(exc) == Exit(1, exc, stdout)

\* "with open(path, 'w') as f: yaml.dump(v, f, ...)" and the print that
\* follows it, the last statements of a function: the file is emptied, then
\* written; when yaml.dump raises the process dies and the message is not
\* printed.
WriteAndExit(path, v, message) ==
    /\ fs' = [fs EXCEPT ![path] = Written(v)]
    /\ IF DumpRaises(v)
       THEN Die("RecursionError")
       ELSE Exit(0, NoError, stdout \o message)

\* A process of a script begins: sys.argv is a.
Begin(a) ==
    /\ runs' = runs + 1
    /\ argv' = a
    /\ pc' = "main"
    /\ pre' = fs
    /\ stdout' = <<>>
    /\ raised' = NoError
    /\ status' = NotExited
    /\ UNCHANGED <<env, fs, doc, new_secrets, idx>>

\* A script is started with argument vector a.
Start(a) ==
    /\ pc = "idle"
    /\ runs = 0
    /\ Begin(a)

\* The same command line is run again, as at every start of the service the
\* script configures.
Restart ==
    /\ pc = "idle"
    /\ runs > 0
    /\ runs < MaxRuns
    /\ Begin(argv)

\* create_images_config(main_file, output_file), from its first line to its
\* last.
create_images_config(main_file, output_file) ==
    LET fromMain == images_from_main(fs[main_file]) IN
    IF fromMain.err # NoError
    THEN /\ Die(fromMain.err)
         /\ UNCHANGED fs
    ELSE WriteAndExit(output_file,
                      images_secrets(fromMain.doc, images_from_env(env)),
                      << <<"Created", output_file>> >>)

\* manage_secrets.py, the block under __main__, up to the call of merge_main
\* (which goes on at "mm_load") and through the call of create_images_config.
ManageSecretsMain ==
    /\ pc = "main"
    /\ Arg(argv, 0) = MANAGE_SECRETS
    /\ UNCHANGED <<env, argv, runs, pre>>
    /\ IF ~HasArg(argv, 1)
       THEN Die("IndexError") /\ UNCHANGED fs
       ELSE IF Arg(argv, 1) = "merge_main"
       THEN IF ~HasArg(argv, 2)
            THEN Die("IndexError") /\ UNCHANGED fs
            ELSE /\ pc' = "mm_load"
                 /\ UNCHANGED <<fs, doc, new_secrets, idx, stdout, raised, status>>
       ELSE IF Arg(argv, 1) = "create_images"
       THEN IF ~HasArg(argv, 2) \/ ~HasArg(argv, 3)
            THEN Die("IndexError") /\ UNCHANGED fs
            ELSE create_images_config(Arg(argv, 2), Arg(argv, 3))
       ELSE /\ Exit(1, NoError, Append(stdout, <<"Unknown mode:", Arg(argv, 1)>>))
            /\ UNCHANGED fs

\* merge_main(main_file), lines 51-60: the document is loaded, 'secrets' is
\* made to exist, and the records are built from the environment.
MergeLoad ==
    /\ pc = "mm_load"
    /\ UNCHANGED <<env, fs, argv, runs, pre>>
    /\ LET f == fs[Arg(argv, 2)] IN
       IF Exists(f) /\ LoadRaises(f) THEN Die("YAMLError")
       ELSE LET v == IF Exists(f) THEN LoadOrEmpty(f) ELSE EmptyMap IN
            IF v.kind # "map" THEN Die("TypeError")
            ELSE /\ doc' = IF v.secKind = "missing"
                           THEN [v EXCEPT !.secKind = "list", !.secrets = <<>>]
                           ELSE v
                 /\ new_secrets' = get_env_secrets(env)
                 /\ idx' = 1
                 /\ pc' = "mm_upsert"
                 /\ UNCHANGED <<stdout, raised, status>>

\* A round of the loop that also writes the document, as it stands, to the
\* file.
MergeUpsertWritingThrough ==
    /\ pc = "mm_upsert"
    /\ UNCHANGED <<env, argv, runs, pre>>
    /\ LET r == merge_upsert(doc, new_secrets[idx]) IN
       IF r.err # NoError THEN Die(r.err) /\ UNCHANGED fs
       ELSE /\ doc' = r.doc
            /\ fs' = [fs EXCEPT ![Arg(argv, 2)] = Written(r.doc)]
            /\ idx' = idx + 1
            /\ pc' = IF idx = Len(new_secrets) THEN "mm_write" ELSE "mm_upsert"
            /\ UNCHANGED <<new_secrets, stdout, raised, status>>

\* merge_main, lines 63-71: one round of "for ns in new_secrets".
MergeUpsert ==
    /\ pc = "mm_upsert"
    /\ UNCHANGED <<env, fs, argv, runs, pre>>
    /\ LET r == merge_upsert(doc, new_secrets[idx]) IN
       IF r.err # NoError THEN Die(r.err)
       ELSE /\ doc' = r.doc
            /\ idx' = idx + 1
            /\ pc' = IF idx = Len(new_secrets) THEN "mm_write" ELSE "mm_upsert"
            /\ UNCHANGED <<new_secrets, stdout, raised, status>>

\* merge_main, lines 73-75: the file is written and the message printed.
MergeWrite ==
    /\ pc = "mm_write"
    /\ WriteAndExit(Arg(argv, 2), doc, << <<"Updated", Arg(argv, 2)>> >>)
    /\ UNCHANGED <<env, argv, runs, pre>>

\* The filter_keys update_config.py passes on.
filter_of(a) == IF Len(a) > 8 THEN FilterList(split(Arg(a, 8))) ELSE FilterNone

\* update_config.py, the block under __main__, through update_secrets.
UpdateConfigMain ==
    /\ pc = "main"
    /\ Arg(argv, 0) = UPDATE_CONFIG
    /\ UNCHANGED <<env, argv, runs, pre>>
    /\ IF Len(argv) < 8
       THEN /\ Exit(1, NoError, Append(stdout, <<"Usage:", UPDATE_CONFIG>>))
            /\ UNCHANGED fs
       ELSE LET r == update_secrets(
                         fs[Arg(argv, 1)],
                         UpdateCalls(Arg(argv, 3), Arg(argv, 4), Arg(argv, 5),
                                     Arg(argv, 6), Arg(argv, 7)),
                         filter_of(argv))
            IN  IF r.err # NoError
                THEN Die(r.err) /\ UNCHANGED fs
                ELSE WriteAndExit(Arg(argv, 2), r.doc, <<>>)

----------------------------------------------------------------------------
(* Initial states *)

\* An environment: the variables of S are set, each to a value of its own.
EnvWith(S) == [n \in EnvVars |-> IF n \in S THEN "value" ELSE Unset]

AllEnvs == {EnvWith(S) : S \in SUBSET EnvVars}

SomeEnvs == {EnvWith({}),
             EnvWith({"DATABASE_URL", "REDIS_URL", "AUDIT_DATABASE_SCHEMA"})}

SeqsUpTo(S, n) == UNION {[1..k -> S] : k \in 0..n}

\* A file of a mapping whose 'secrets' is the list of the entries ss, each
\* an object of its own.
Listing(top, ss) ==
    File("map", FALSE, top, "list", ss, [i \in 1..Len(ss) |-> i])

PlainTop == Top("plain", <<>>)

\* The files in which an entry is one object at two places: twice in
\* 'secrets' (secrets: [&a {...}, *a]); in 'secrets' and, after an entry of
\* its own, once more; in 'secrets' and as another top-level field
\* (keep: &e {...}, secrets: [*e]); and those in which another top-level
\* field is the list 'secrets' itself (secrets: &s [...], copy: *s).
Aliasing(entries) ==
    {File("map", FALSE, NoTop, "list", <<e>>, <<1, 1>>) : e \in entries}
    \cup {File("map", FALSE, NoTop, "list", <<e, d>>, <<1, 2, 1>>) :
              e \in entries, d \in entries}
    \cup {File("map", FALSE, Top("entry", <<1>>), "list", <<e>>, <<1>>) :
              e \in entries}
    \cup {Listing(Top("same", <<>>), ss) : ss \in SeqsUpTo(entries, 1)}

\* The files whose 'secrets', when a list, has at most n of the entries.
Files(entries, n) ==
    {AbsentFile, MalformedFile, EmptyFile,
     File("nonmap", FALSE, NoTop, "missing", <<>>, <<>>)}
    \cup {File("map", FALSE, t, k, <<>>, <<>>) :
              t \in {NoTop, PlainTop},
              k \in {"missing", "emptyiter", "notlist"}}
    \cup {Listing(t, ss) : t \in {NoTop, PlainTop}, ss \in SeqsUpTo(entries, n)}

\* The arguments of update_config.py after the two paths.
Urls == <<"postgres://db", "postgres://audit", "postgres://search",
          "redis://cache", "redis://analytic">>

FilterArgs == {<<>>, <<"db", ",", "other">>}

Invocations ==
    {<<MANAGE_SECRETS>>, <<MANAGE_SECRETS, "bogus">>,
     <<MANAGE_SECRETS, "merge_main">>}
    \cup {<<MANAGE_SECRETS, "merge_main", p>> : p \in Paths}
    \cup {<<MANAGE_SECRETS, "create_images", p>> : p \in Paths}
    \cup {<<MANAGE_SECRETS, "create_images", p, q>> : p \in Paths, q \in Paths}
    \cup {<<UPDATE_CONFIG>>}
    \cup {SubSeq(<<UPDATE_CONFIG, p, q>> \o Urls, 1, 7) : p \in Paths, q \in Paths}
    \cup {<<UPDATE_CONFIG, p, q>> \o Urls : p \in Paths, q \in Paths}
    \cup {<<UPDATE_CONFIG, p, q>> \o Urls \o <<f>> :
              p \in Paths, q \in Paths, f \in FilterArgs}

InitWith(envs, files) ==
    /\ env \in envs
    /\ fs \in {[p \in Paths |-> IF p = "main" THEN f ELSE AbsentFile] : f \in files}
    /\ argv = <<>>
    /\ pc = "idle"
    /\ doc = EmptyMap
    /\ new_secrets = <<>>
    /\ idx = 0
    /\ stdout = <<>>
    /\ raised = NoError
    /\ status = NotExited
    /\ runs = 0
    /\ pre = fs

\* The entries of the documents merge_main and update_secrets start from:
\* plain ones, and ones yaml.dump fails on or changes, without a key, or of
\* another type than a mapping.
MergeEntries ==
    {[key |-> k, data |-> OldData, extra |-> NoExtra] : k \in {"db", "redis", "other"}}
    \cup {[key |-> "other", data |-> OldData, extra |-> "note"],
          [key |-> "other", data |-> DeepData, extra |-> NoExtra],
          [key |-> "other", data |-> OmapData, extra |-> NoExtra],
          [key |-> "db", data |-> DeepData, extra |-> NoExtra],
          [key |-> NoKey, data |-> OldData, extra |-> NoExtra],
          [key |-> NotMapping, data |-> OldData, extra |-> NoExtra]}

AliasedEntries ==
    {[key |-> k, data |-> OldData, extra |-> NoExtra] : k \in {"db", "other"}}

ExoticTops ==
    {Listing(Top(k, <<>>), ss) :
         k \in {"deep", "omap"},
         ss \in SeqsUpTo({[key |-> "db", data |-> OldData, extra |-> NoExtra]}, 1)}

\* The entries of the main documents create_images_config starts from.
ImagesEntries ==
    {[key |-> k, data |-> OldData, extra |-> NoExtra] :
         k \in {"admin-api.auth", "oauth", "csrf", "other"}}
    \cup {[key |-> "oauth", data |-> OmapData, extra |-> "note"],
          [key |-> "oauth", data |-> DeepData, extra |-> NoExtra],
          [key |-> NoKey, data |-> OldData, extra |-> NoExtra],
          [key |-> NotMapping, data |-> OldData, extra |-> NoExtra]}

ImagesInvocations ==
    {<<MANAGE_SECRETS, "create_images", "main">>,
     <<MANAGE_SECRETS, "create_images", "main", "out">>,
     <<MANAGE_SECRETS, "create_images", "main", "main">>,
     <<MANAGE_SECRETS, "create_images", "out", "main">>}

Init ==
    InitWith(SomeEnvs,
             Files(MergeEntries, MaxSecretsLen) \cup Aliasing(AliasedEntries)
                 \cup ExoticTops)

InitImages ==
    InitWith({EnvWith({}), EnvWith(EnvVars)},
             {f \in Files(ImagesEntries, MaxMainLen) : f.top = NoTop}
                 \cup Aliasing({[key |-> "oauth", data |-> OldData, extra |-> NoExtra]}))

InitEnv == InitWith(AllEnvs, {AbsentFile, File("map", FALSE, PlainTop, "missing", <<>>, <<>>)})

Next ==
    \/ \E a \in Invocations : Start(a)
    \/ Restart
    \/ ManageSecretsMain
    \/ MergeLoad
    \/ MergeUpsert
    \/ MergeWrite
    \/ UpdateConfigMain

NextImages ==
    \/ \E a \in ImagesInvocations : Start(a)
    \/ Restart
    \/ ManageSecretsMain

Spec == Init /\ [][Next]_vars

SpecImages == InitImages /\ [][NextImages]_vars

SpecEnv == InitEnv /\ [][Next]_vars
----------------------------------------------------------------------------
(* What the properties below speak of *)

\* The last invocation has ended.
Exited == pc = "idle" /\ runs > 0

Succeeded == Exited /\ status = 0

\* The last invocation is "manage_secrets.py merge_main <path>".
IsMerge ==
    /\ runs > 0
    /\ Arg(argv, 0) = MANAGE_SECRETS
    /\ HasArg(argv, 2)
    /\ Arg(argv, 1) = "merge_main"

\* The last invocation is "manage_secrets.py create_images <main> <output>".
IsImages ==
    /\ runs > 0
    /\ Arg(argv, 0) = MANAGE_SECRETS
    /\ HasArg(argv, 3)
    /\ Arg(argv, 1) = "create_images"

\* The last invocation is update_config.py with all its arguments.
IsUpdate ==
    /\ runs > 0
    /\ Arg(argv, 0) = UPDATE_CONFIG
    /\ HasArg(argv, 7)

\* The file holds a mapping with a list 'secrets'.
HasSecrets(f) == f.kind = "map" /\ f.secKind = "list"

\* The 'secrets' sequence a file holds, as records; none is the empty one.
SecretsOf(f) == IF HasSecrets(f) THEN EntriesOf(f) ELSE <<>>

\* The value of the top-level fields other than 'secrets' a file holds: the
\* records of a field that holds records, in order.
TopOf(f) ==
    IF f.kind # "map" THEN [kind |-> "none", records |-> <<>>]
    ELSE IF f.top.kind = "same" THEN [kind |-> "list", records |-> SecretsOf(f)]
    ELSE [kind |-> f.top.kind,
          records |-> [i \in 1..Len(f.top.refs) |-> f.objs[f.top.refs[i]]]]

KeySet(secrets) == {secrets[i].key : i \in 1..Len(secrets)}

\* Entry i is the first of the sequence with its key.
IsFirst(secrets, i) == \A j \in 1..(i - 1) : secrets[j].key # secrets[i].key

\* No two entries have the same key.
UniqueKeys(secrets) ==
    \A i, j \in 1..Len(secrets) :
        secrets[i].key = secrets[j].key /\ secrets[i].key # NoKey => i = j

BuilderKeys == <<"db", "audit.db", "images.db", "search.db", "redis", "analytic.redis">>

\* The record of a list of records that has the given key.
RecordFor(records, key) ==
    records[CHOOSE n \in 1..Len(records) : records[n].key = key]

\* The records of a list as a YAML text holds them once written.
Stored(records) == [i \in 1..Len(records) |-> Represent(records[i])]

----------------------------------------------------------------------------
(* Properties of merge_main *)

\* C1. merge_main upserts by key.  When it has written the file: every entry
\* the file had is still at its index, with its key; for each of the six
\* builder records whose key the file had, the first entry with that key now
\* holds the builder's data; the builder records whose key the file did not
\* have follow all the old entries, in builder order; and from a missing file
\* the result is exactly the six builder records.
C1_UpsertByKey ==
    IsMerge /\ Succeeded =>
        LET path == Arg(argv, 2)
            old == SecretsOf(pre[path])
            new == SecretsOf(fs[path])
            built == get_env_secrets(env)
            fresh == SelectSeq(built, LAMBDA b : b.key \notin KeySet(old))
        IN  /\ HasSecrets(fs[path])
            /\ Keys(built) = BuilderKeys
            /\ Len(new) = Len(old) + Len(fresh)
            /\ \A i \in 1..Len(old) :
                   /\ new[i].key = old[i].key
                   /\ old[i].key \in KeySet(built) /\ IsFirst(old, i)
                          => new[i].data = RecordFor(built, old[i].key).data
            /\ SubSeq(new, Len(old) + 1, Len(new)) = fresh
            /\ (~Exists(pre[path]) => new = built)

\* C1, witness: the file held "other" and then "redis"; merge_main replaced
\* the data of "redis" where it was and appended the five other records.
C1_Witness ==
    /\ IsMerge /\ Succeeded
    /\ Keys(SecretsOf(pre[Arg(argv, 2)])) = <<"other", "redis">>
    /\ Len(SecretsOf(fs[Arg(argv, 2)])) = 7
    /\ SecretsOf(fs[Arg(argv, 2)])[2].data # OldData

\* The original statement of C2: after merge_main, and after update_secrets,
\* on any input document, no two records of the written 'secrets' have the
\* same key.
C2_UniqueAfterAnyInput ==
    /\ IsMerge /\ Succeeded => UniqueKeys(SecretsOf(fs[Arg(argv, 2)]))
    /\ IsUpdate /\ Succeeded => UniqueKeys(SecretsOf(fs[Arg(argv, 2)]))

\* C2, as amended.  The upserts preserve the uniqueness of keys: when no two
\* records of the input document's 'secrets' have the same key, no two
\* records of the 'secrets' that merge_main, or update_secrets, writes have.
C2_UniquePreserved ==
    /\ IsMerge /\ Succeeded /\ UniqueKeys(SecretsOf(pre[Arg(argv, 2)]))
           => UniqueKeys(SecretsOf(fs[Arg(argv, 2)]))
    /\ IsUpdate /\ Succeeded /\ UniqueKeys(SecretsOf(pre[Arg(argv, 1)]))
           => UniqueKeys(SecretsOf(fs[Arg(argv, 2)]))

\* C2, witness: merge_main has merged into a document that held "db" and
\* "redis" once each.
C2_Witness ==
    /\ IsMerge /\ Succeeded
    /\ Keys(SecretsOf(pre[Arg(argv, 2)])) = <<"redis", "db">>
    /\ Len(SecretsOf(fs[Arg(argv, 2)])) = 6

\* C3. merge_main leaves untouched what it does not upsert: the written
\* document has the top-level fields other than 'secrets' the loaded one
\* had, with the same value, and the entries whose key is none of the six
\* builder keys are the same entries as before, in the same order.
C3_MergeFrame ==
    IsMerge /\ Succeeded =>
        LET path == Arg(argv, 2)
            unrelated(ss) == SelectSeq(ss, LAMBDA s : s.key \notin Items(BuilderKeys))
        IN  /\ TopOf(fs[path]) = TopOf(pre[path])
            /\ unrelated(SecretsOf(fs[path])) = unrelated(SecretsOf(pre[path]))

\* C4. merge_main is idempotent: run again on the same path in the same
\* environment, it leaves the file as the run before left it.
C4_MergeIdempotent ==
    IsMerge /\ Exited /\ runs >= 2 => fs = pre

\* C8. merge_main writes the file only after the merge in memory is done:
\* while it loads and upserts the file system is as it found it, it is at
\* the write only when all six records have been upserted, when it dies of
\* an exception of the load or of the merge the file system is as it found
\* it, and a file it has changed never holds a part of the merge.
C8_WriteAfterMerge ==
    IsMerge =>
        LET merged(records) ==
                \A n \in 1..6 : \E i \in 1..Len(records) :
                    records[i] = get_env_secrets(env)[n]
        IN  /\ pc \in {"main", "mm_load", "mm_upsert", "mm_write"} => fs = pre
            /\ pc = "mm_write" => idx = 7 /\ merged(EntriesOf(doc))
            /\ Exited /\ status # 0 /\ raised # "RecursionError" => fs = pre
            /\ fs # pre =>
                   /\ Exited
                   /\ \A p \in Paths : p # Arg(argv, 2) => fs[p] = pre[p]
                   /\ \/ status = 0 /\ merged(SecretsOf(fs[Arg(argv, 2)]))
                      \/ raised = "RecursionError" /\ fs[Arg(argv, 2)] = EmptyFile

\* C8, witness: the file held "db" and then an entry without a key; the
\* first upsert replaced "db" in memory, the second died of the KeyError.
C8_Witness ==
    /\ IsMerge /\ Exited
    /\ raised = "KeyError"
    /\ Keys(SecretsOf(pre[Arg(argv, 2)])) = <<"db", NoKey>>

----------------------------------------------------------------------------
(* Properties of create_images_config *)

ImagesKeySet == {"admin-api.auth", "oauth", "csrf", "db", "redis", "images.db"}

\* The original statement of C5: from a main document with the keys
\* admin-api.auth, oauth, csrf and other the output has exactly the six keys
\* of the images configuration, and from any main document the output has no
\* key outside these six and no key twice.
C5_ImagesKeysAnyMain ==
    IsImages /\ Succeeded =>
        LET main == SecretsOf(pre[Arg(argv, 2)])
            out == SecretsOf(fs[Arg(argv, 3)])
        IN  /\ {"admin-api.auth", "oauth", "csrf", "other"} \subseteq KeySet(main)
                   => KeySet(out) = ImagesKeySet
            /\ KeySet(out) \subseteq ImagesKeySet
            /\ UniqueKeys(out)

\* C5, as amended.  From a main document with the keys admin-api.auth,
\* oauth, csrf and other the output has exactly the six keys of the images
\* configuration; from any main document the output has no key outside
\* these six (never other); and it has no key twice when the main document
\* has none of admin-api.auth, oauth and csrf twice.
C5_ImagesKeys ==
    IsImages /\ Succeeded =>
        LET main == SecretsOf(pre[Arg(argv, 2)])
            out == SecretsOf(fs[Arg(argv, 3)])
        IN  /\ {"admin-api.auth", "oauth", "csrf", "other"} \subseteq KeySet(main)
                   => KeySet(out) = ImagesKeySet
            /\ KeySet(out) \subseteq ImagesKeySet
            /\ UniqueKeys(FilterKeys(main, REQUIRED_FROM_MAIN)) => UniqueKeys(out)

\* C5, witness: the main document held other, csrf, oauth and admin-api.auth
\* and the output was written.
C5_Witness ==
    /\ IsImages /\ Succeeded
    /\ Keys(SecretsOf(pre[Arg(argv, 2)])) = <<"other", "csrf", "oauth", "admin-api.auth">>
    /\ Len(SecretsOf(fs[Arg(argv, 3)])) = 6

\* C6. In the output of create_images_config the records taken from the
\* main document are the main document's own records (key, data and every
\* other field), in the main document's order, whatever the environment;
\* they all come before the records built from the environment, which are
\* db, images.db and redis in this order whatever the main document holds.
C6_MainThenEnv ==
    IsImages /\ Succeeded =>
        LET main == SecretsOf(pre[Arg(argv, 2)])
            out == SecretsOf(fs[Arg(argv, 3)])
            copied == SelectSeq(main, LAMBDA s : s.key \in REQUIRED_FROM_MAIN)
            n == Len(copied)
        IN  /\ Len(out) = n + 3
            /\ SubSeq(out, 1, n) = copied
            /\ Keys(SubSeq(out, n + 1, n + 3)) = <<"db", "images.db", "redis">>
            /\ \A i \in (n + 1)..(n + 3) :
                   out[i] = RecordFor(get_env_secrets(env), out[i].key)
            /\ \A i, j \in 1..Len(out) :
                   out[i].key \in REQUIRED_FROM_MAIN /\ out[j].key \in REQUIRED_FROM_ENV
                       => i < j

----------------------------------------------------------------------------
(* Properties of the command lines *)

\* The command line is in error: manage_secrets.py without a mode, with an
\* unknown mode, or with a mode and too few paths; update_config.py with
\* fewer than 7 arguments.
UsageError ==
    /\ runs > 0
    /\ \/ /\ Arg(argv, 0) = MANAGE_SECRETS
          /\ \/ ~HasArg(argv, 1)
             \/ HasArg(argv, 1) /\ Arg(argv, 1) = "merge_main" /\ ~HasArg(argv, 2)
             \/ HasArg(argv, 1) /\ Arg(argv, 1) = "create_images" /\ ~HasArg(argv, 3)
             \/ HasArg(argv, 1) /\ Arg(argv, 1) \notin {"merge_main", "create_images"}
       \/ /\ Arg(argv, 0) = UPDATE_CONFIG
          /\ Len(argv) - 1 < 7

\* C7. A usage error is reported by a printed message and a non-zero exit
\* status, and no file is created or modified before the exit.
C7_UsageErrorReported ==
    UsageError =>
        /\ fs = pre
        /\ Exited => status # 0 /\ Len(stdout) > 0

----------------------------------------------------------------------------
(* Properties of get_env_secrets *)

\* C9. For every assignment of the eight variables get_env_secrets returns
\* six records, with the keys db, audit.db, images.db, search.db, redis and
\* analytic.redis in this order; the value of an absent variable is None,
\* but "public" for the three schema variables; and it does not raise.
C9_BuilderRecords ==
    IsMerge /\ pc \in {"mm_upsert", "mm_write"} =>
        LET val(n) == IF env[n] = Unset THEN Null ELSE env[n]
            schema(n) == IF env[n] = Unset THEN "public" ELSE env[n]
            db(b, s, u) == /\ DOMAIN b.data = {"database_schema", "database_url"}
                           /\ b.data.database_schema = schema(s)
                           /\ b.data.database_url = val(u)
            redis(b, u) == /\ DOMAIN b.data = {"redis_url"}
                           /\ b.data.redis_url = val(u)
        IN  /\ raised = NoError
            /\ Len(new_secrets) = 6
            /\ Keys(new_secrets) = BuilderKeys
            /\ db(new_secrets[1], "DATABASE_SCHEMA", "DATABASE_URL")
            /\ db(new_secrets[2], "AUDIT_DATABASE_SCHEMA", "AUDIT_DATABASE_URL")
            /\ db(new_secrets[3], "DATABASE_SCHEMA", "DATABASE_URL")
            /\ db(new_secrets[4], "SEARCH_DATABASE_SCHEMA", "SEARCH_DATABASE_URL")
            /\ redis(new_secrets[5], "REDIS_URL")
            /\ redis(new_secrets[6], "ANALYTIC_REDIS_URL")

\* C9, witness: merge_main has the records of an environment in which
\* DATABASE_URL and AUDIT_DATABASE_SCHEMA are absent and REDIS_URL and
\* SEARCH_DATABASE_SCHEMA are set.
C9_Witness ==
    /\ IsMerge /\ pc = "mm_upsert"
    /\ env["DATABASE_URL"] = Unset
    /\ env["AUDIT_DATABASE_SCHEMA"] = Unset
    /\ env["REDIS_URL"] # Unset
    /\ env["SEARCH_DATABASE_SCHEMA"] # Unset
    /\ new_secrets[1].data.database_url = Null
    /\ new_secrets[2].data.database_schema = "public"

----------------------------------------------------------------------------
(* Properties of update_secrets *)

\* The six upserts of update_secrets on the 'secrets' of a file: the first
\* entry with a call's key takes the call's data, at every place of the
\* list where that same entry is, and keeps its places and its other
\* fields; the calls whose key the list had not follow, as new records.
Upserted(f, calls) ==
    LET old == SecretsOf(f)
        first(k) == CHOOSE i \in 1..Len(old) : old[i].key = k /\ IsFirst(old, i)
    IN  [i \in 1..Len(old) |->
            IF /\ old[i].key \in KeySet(calls)
               /\ f.secrets[i] = f.secrets[first(old[i].key)]
            THEN [old[i] EXCEPT !.data = RecordFor(calls, old[i].key).data]
            ELSE old[i]]
        \o SelectSeq(calls, LAMBDA c : c.key \notin KeySet(old))

\* The records update_secrets is to write for the last invocation.
MergedThenFiltered ==
    LET merged == Upserted(pre[Arg(argv, 1)],
                           UpdateCalls(Arg(argv, 3), Arg(argv, 4), Arg(argv, 5),
                                       Arg(argv, 6), Arg(argv, 7)))
    IN  IF HasArg(argv, 8)
        THEN SelectSeq(merged, LAMBDA s : s.key \in Items(split(Arg(argv, 8))))
        ELSE merged

\* The original statement of C10: update_secrets upserts the six records
\* into the input document's 'secrets', keeps the records the allow-list
\* names when one is given, writes the result to the output path, and
\* leaves the content of the input file unchanged.
C10_UpdateLeavesInput ==
    IsUpdate /\ Succeeded =>
        /\ SecretsOf(fs[Arg(argv, 2)]) = Stored(MergedThenFiltered)
        /\ fs[Arg(argv, 1)] = pre[Arg(argv, 1)]

\* C10, as amended.  update_secrets upserts the six records into the input
\* document's 'secrets', keeps the records the allow-list names when one is
\* given, and writes the result to the output path; it leaves the content
\* of the input file unchanged when the output path is another path than
\* the input path.
C10_UpdateMergeThenFilter ==
    IsUpdate /\ Succeeded =>
        /\ SecretsOf(fs[Arg(argv, 2)]) = Stored(MergedThenFiltered)
        /\ Arg(argv, 1) # Arg(argv, 2) => fs[Arg(argv, 1)] = pre[Arg(argv, 1)]

\* C10, witness: the input held redis, with a field of its own, and other;
\* with the allow-list "db,other" the output, at another path, is other and
\* then db.
C10_Witness ==
    /\ IsUpdate /\ Succeeded
    /\ Arg(argv, 1) = "main" /\ Arg(argv, 2) = "out"
    /\ HasArg(argv, 8) /\ Len(Arg(argv, 8)) = 3
    /\ Keys(SecretsOf(pre["main"])) = <<"other", "redis">>
    /\ Keys(SecretsOf(fs["out"])) = <<"other", "db">>

====
